---- MODULE Spec2Model ----
(***************************************************************************)
(* docx_temp/generate_content.py: generate_large_content().                *)
(*                                                                         *)
(* Spec      the loop of lines 11-48 over the 2000 paragraph indices: the   *)
(*           fragments appended to `content` and the joined result.        *)
(* SpecText  the random text of one paragraph, lines 16-25, step by step.   *)
(* SpecPair  two runs of the loop side by side, each with its own random    *)
(*           source.                                                       *)
(*                                                                         *)
(* Characters are one-character strings, a Python str is a sequence of     *)
(* them.  The random module is a pseudo-random generator whose initial     *)
(* state is unknown: `rng` starts at any value of 0..MaxSeed and every     *)
(* draw advances it.  In SpecText a text is its characters; in `content`   *)
(* a paragraph text is one token, naming the state of the generator from   *)
(* which lines 16-25 produce it.                                           *)
(***************************************************************************)
EXTENDS Integers, Sequences, FiniteSets, TLC

VARIABLES pc, i, section_num, para_num, paragraph_text, content, output, rng,
          sentences, words, j, k, nsentences, nwords,
          pc2, i2, section_num2, para_num2, content2, output2, rng2

loopVars == <<pc, i, section_num, para_num, paragraph_text, content, output, rng>>
textVars == <<sentences, words, j, k, nsentences, nwords>>
pairVars == <<pc2, i2, section_num2, para_num2, content2, output2, rng2>>
vars == <<loopVars, textVars, pairVars>>

(* ---------------------------------------------------------------- bounds *)

\* the random source of a run of the loop starts in a state of 0..MaxSeed
MaxSeed == 1
\* the random source of a paragraph starts in a state of 0..MaxTextSeed
MaxTextSeed == 11

(* ------------------------------------------------------------- constants *)

\* range(2000), line 11
Count == 2000
\* i % 50 == 0, line 38, and i//50, line 44
HeadingInterval == 50
\* i // 100 and i % 100, lines 12-13
SectionSize == 100

(* ---------------------------------------------------------- random, str *)

ascii_lowercase ==
    << "a", "b", "c", "d", "e", "f", "g", "h", "i", "j", "k", "l", "m",
       "n", "o", "p", "q", "r", "s", "t", "u", "v", "w", "x", "y", "z" >>

ascii_uppercase ==
    << "A", "B", "C", "D", "E", "F", "G", "H", "I", "J", "K", "L", "M",
       "N", "O", "P", "Q", "R", "S", "T", "U", "V", "W", "X", "Y", "Z" >>

Range(s) == { s[n] : n \in DOMAIN s }

\* the state of the generator after one draw
NextRng(r) == (r * 75 + 74) % 65537

\* In the recursions over generator states the test r < 0, which never holds,
\* makes TLC evaluate r at each step instead of piling up unevaluated draws.
RECURSIVE Advance(_, _)
\* the state of the generator after n draws
Advance(r, n) == IF n = 0 \/ r < 0 THEN r ELSE Advance(NextRng(r), n - 1)

\* random.randint(a, b) drawn in state r: an integer of a..b
randint(r, a, b) == a + (r % (b - a + 1))

RECURSIVE choices(_, _, _)
\* random.choices(population, k=n) drawn from state r on: n draws
choices(r, population, n) ==
    IF n = 0 \/ r < 0 THEN << >>
    ELSE << population[(r % Len(population)) + 1] >>
             \o choices(NextRng(r), population, n - 1)

IndexOf(c, alphabet) == CHOOSE n \in DOMAIN alphabet : alphabet[n] = c

\* str.upper() and str.lower() of one character
upper(c) == IF c \in Range(ascii_lowercase)
            THEN ascii_uppercase[IndexOf(c, ascii_lowercase)] ELSE c
lower(c) == IF c \in Range(ascii_uppercase)
            THEN ascii_lowercase[IndexOf(c, ascii_uppercase)] ELSE c

\* str.capitalize(): the first character upper-cased, the rest lower-cased
capitalize(s) ==
    [ n \in DOMAIN s |-> IF n = 1 THEN upper(s[n]) ELSE lower(s[n]) ]

RECURSIVE join(_, _)
\* sep.join(parts): the parts with sep between them (computed by halves, which
\* keeps the recursion shallow on the 2040 fragments of content)
join(sep, parts) ==
    IF Len(parts) = 0 THEN << >>
    ELSE IF Len(parts) = 1 THEN parts[1]
    ELSE join(sep, SubSeq(parts, 1, Len(parts) \div 2))
             \o sep
             \o join(sep, SubSeq(parts, (Len(parts) \div 2) + 1, Len(parts)))

\* list.append(x) gone wrong: a heading is put in before the fragment last
\* appended
append_HeadingBeforeBody(list, x) ==
    IF Len(list) > 0 /\ Len(x) > 0
          /\ x[1] = "        <w:p>\n            <w:pPr>\n                <w:pStyle w:val=\"Heading2\"/>\n            </w:pPr>\n            <w:r>\n                <w:t>Section "
    THEN SubSeq(list, 1, Len(list) - 1) \o << x, list[Len(list)] >>
    ELSE Append(list, x)

\* list.append(x) gone wrong: list.insert(0, x)
append_Front(list, x) == << x >> \o list

\* list.append(x) gone wrong: the element last appended is overwritten
append_Overwrite(list, x) ==
    IF Len(list) = 0 THEN << x >> ELSE [ list EXCEPT ![Len(list)] = x ]

\* list.append(x)
append(list, x) == Append(list, x)

(* --------------------------------------------- one paragraph, lines 16-25 *)

\* line 20 gone wrong: randint(3, 13)
word_len_TooLong(r) == randint(r, 3, 13)

\* lines 20-21: the word drawn in state r, and the state after it
word_len(r) == randint(r, 3, 12)
Word(r) == choices(NextRng(r), ascii_lowercase, word_len(r))
AfterWord(r) == Advance(r, 1 + word_len(r))

\* line 23 gone wrong: capitalize() left out
Sentence_NoCapital(ws) == join(<< " " >>, ws) \o << "." >>

\* line 23: the sentence made of the words ws
Sentence(ws) == capitalize(join(<< " " >>, ws)) \o << "." >>

\* lines 16-17: sentences = [], the range of j is drawn
BeginParagraph ==
    /\ pc = "paragraph"
    /\ sentences' = << >>
    /\ nsentences' = randint(rng, 3, 8)
    /\ rng' = NextRng(rng)
    /\ j' = 0
    /\ pc' = "sentence"
    /\ UNCHANGED <<words, k, nwords>>
    /\ UNCHANGED <<i, section_num, para_num, paragraph_text, content, output>>

\* lines 17-19: the next j; words = [], the range of k is drawn
BeginSentence ==
    /\ pc = "sentence"
    /\ j < nsentences
    /\ words' = << >>
    /\ nwords' = randint(rng, 8, 20)
    /\ rng' = NextRng(rng)
    /\ k' = 0
    /\ pc' = "word"
    /\ UNCHANGED <<sentences, j, nsentences>>
    /\ UNCHANGED <<i, section_num, para_num, paragraph_text, content, output>>

\* lines 19-22: the next k; a word is drawn and appended
AppendWord ==
    /\ pc = "word"
    /\ k < nwords
    /\ words' = append(words, Word(rng))
    /\ rng' = AfterWord(rng)
    /\ k' = k + 1
    /\ UNCHANGED <<sentences, j, nsentences, nwords>>
    /\ UNCHANGED <<pc, i, section_num, para_num, paragraph_text, content, output>>

\* line 23: the range of k is exhausted; the sentence is appended
AppendSentence ==
    /\ pc = "word"
    /\ k = nwords
    /\ sentences' = append(sentences, Sentence(words))
    /\ j' = j + 1
    /\ pc' = "sentence"
    /\ UNCHANGED <<words, k, nsentences, nwords>>
    /\ UNCHANGED <<i, section_num, para_num, paragraph_text, content, output, rng>>

\* line 25: the range of j is exhausted; the sentences are joined
JoinParagraph ==
    /\ pc = "sentence"
    /\ j = nsentences
    /\ paragraph_text' = join(<< " " >>, sentences)
    /\ pc' = "joined"
    /\ UNCHANGED textVars
    /\ UNCHANGED <<i, section_num, para_num, content, output, rng>>

InitText ==
    /\ pc = "paragraph"
    /\ rng \in 0 .. MaxTextSeed
    /\ i = 0 /\ section_num = 0 /\ para_num = 0
    /\ paragraph_text = << >>
    /\ content = << >> /\ output = << >>
    /\ sentences = << >> /\ words = << >>
    /\ j = 0 /\ k = 0 /\ nsentences = 0 /\ nwords = 0
    /\ pc2 = "for" /\ i2 = 0 /\ section_num2 = 0 /\ para_num2 = 0
    /\ content2 = << >> /\ output2 = << >> /\ rng2 = 0

NextText ==
    \/ BeginParagraph /\ UNCHANGED pairVars
    \/ BeginSentence /\ UNCHANGED pairVars
    \/ AppendWord /\ UNCHANGED pairVars
    \/ AppendSentence /\ UNCHANGED pairVars
    \/ JoinParagraph /\ UNCHANGED pairVars

SpecText == InitText /\ [][NextText]_vars

\* lines 16-25 as one step: the state of the generator after the n words of a
\* sentence, after n sentences, and after a whole paragraph
RECURSIVE AfterWords(_, _)
AfterWords(r, n) == IF n = 0 \/ r < 0 THEN r ELSE AfterWords(AfterWord(r), n - 1)

RECURSIVE AfterSentences(_, _)
AfterSentences(r, n) ==
    IF n = 0 \/ r < 0 THEN r
    ELSE AfterSentences(AfterWords(NextRng(r), randint(r, 8, 20)), n - 1)

AfterParagraph(r) == AfterSentences(NextRng(r), randint(r, 3, 8))

\* the paragraph text that lines 16-25 produce from generator state r, as one
\* token of the fragment it is rendered into
TextToken(r) == ToString(r)

(* ------------------------------------------------- the loop, lines 8-48 *)

\* The f-strings of lines 28-35 and 39-46: a fragment is the sequence of the
\* template's literal pieces and the formatted values between them.
BodyOpen ==
    "        <w:p>\n            <w:pPr>\n                <w:pStyle w:val=\"Normal\"/>\n            </w:pPr>\n            <w:r>\n                <w:t>Section "
BodyClose ==
    " This content is generated to create a large document file for testing purposes. The text contains various combinations of words and sentences to simulate real document content while reaching the target file size.</w:t>\n            </w:r>\n        </w:p>"
HeadingOpen ==
    "        <w:p>\n            <w:pPr>\n                <w:pStyle w:val=\"Heading2\"/>\n            </w:pPr>\n            <w:r>\n                <w:t>Section "
HeadingClose ==
    "</w:t>\n            </w:r>\n        </w:p>"

\* lines 28-35 gone wrong: the style of the heading template
BodyFragment_Heading2Style(sec, par, text) ==
    << HeadingOpen, ToString(sec), ", Paragraph ", ToString(par), ": ", text, BodyClose >>

\* lines 28-35 gone wrong: the section number and the text in each other's place
BodyFragment_SwappedFields(sec, par, text) ==
    << BodyOpen, text, ", Paragraph ", ToString(par), ": ", ToString(sec), BodyClose >>

BodyFragment(sec, par, text) ==
    << BodyOpen, ToString(sec), ", Paragraph ", ToString(par), ": ", text, BodyClose >>

HeadingFragment(sec, sub) ==
    << HeadingOpen, ToString(sec), " - Subsection ", ToString(sub), HeadingClose >>

\* line 11: n is in range(2000)
in_range(n) == n < Count
\* line 12 gone wrong: the + 1 left out
SectionNum_ZeroBased(n) == n \div SectionSize

\* lines 12-13
SectionNum(n) == (n \div SectionSize) + 1
ParaNum(n) == (n % SectionSize) + 1
\* line 38 gone wrong: no heading at index 0
HeadingDue_SkipFirst(n) == n > 0 /\ n % HeadingInterval = 0

\* line 38
HeadingDue(n) == n % HeadingInterval = 0
\* line 44: i//50 + 1
Subsection(n) == (n \div HeadingInterval) + 1
\* line 48
ReturnValue(c) == join(<< "\n" >>, c)

\* lines 11-35: the next i; its paragraph is generated and appended
AppendParagraph ==
    /\ pc = "for"
    /\ in_range(i)
    /\ section_num' = SectionNum(i)
    /\ para_num' = ParaNum(i)
    /\ paragraph_text' = TextToken(rng)
    /\ rng' = AfterParagraph(rng)
    /\ content' = append(content, BodyFragment(section_num', para_num', paragraph_text'))
    /\ pc' = "if"
    /\ UNCHANGED <<i, output>>

\* lines 38-46: the heading of index i is appended
AppendHeading ==
    /\ pc = "if"
    /\ HeadingDue(i)
    /\ content' = append(content, HeadingFragment(section_num, Subsection(i)))
    /\ i' = i + 1
    /\ pc' = "for"
    /\ UNCHANGED <<section_num, para_num, paragraph_text, output, rng>>

\* line 38: no heading at index i
NoHeading ==
    /\ pc = "if"
    /\ ~HeadingDue(i)
    /\ i' = i + 1
    /\ pc' = "for"
    /\ UNCHANGED <<section_num, para_num, paragraph_text, content, output, rng>>

\* line 48: the range of i is exhausted
Return ==
    /\ pc = "for"
    /\ ~in_range(i)
    /\ output' = ReturnValue(content)
    /\ pc' = "done"
    /\ UNCHANGED <<i, section_num, para_num, paragraph_text, content, rng>>

Init ==
    /\ pc = "for"
    /\ rng \in 0 .. MaxSeed
    /\ i = 0 /\ section_num = 0 /\ para_num = 0
    /\ paragraph_text = << >>
    /\ content = << >> /\ output = << >>
    /\ sentences = << >> /\ words = << >>
    /\ j = 0 /\ k = 0 /\ nsentences = 0 /\ nwords = 0
    /\ pc2 = "for" /\ i2 = 0 /\ section_num2 = 0 /\ para_num2 = 0
    /\ content2 = << >> /\ output2 = << >> /\ rng2 = 0

Next ==
    \/ AppendParagraph /\ UNCHANGED textVars /\ UNCHANGED pairVars
    \/ AppendHeading /\ UNCHANGED textVars /\ UNCHANGED pairVars
    \/ NoHeading /\ UNCHANGED textVars /\ UNCHANGED pairVars
    \/ Return /\ UNCHANGED textVars /\ UNCHANGED pairVars

Spec == Init /\ [][Next]_vars

(* ------------------------------------ two runs of the loop, side by side *)

\* The second run: the same four steps on its own variables.
AppendParagraph2 ==
    /\ pc2 = "for"
    /\ in_range(i2)
    /\ section_num2' = SectionNum(i2)
    /\ para_num2' = ParaNum(i2)
    /\ rng2' = AfterParagraph(rng2)
    /\ content2' = append(content2, BodyFragment(section_num2', para_num2', TextToken(rng2)))
    /\ pc2' = "if"
    /\ UNCHANGED <<i2, output2>>

AppendHeading2 ==
    /\ pc2 = "if"
    /\ HeadingDue(i2)
    /\ content2' = append(content2, HeadingFragment(section_num2, Subsection(i2)))
    /\ i2' = i2 + 1
    /\ pc2' = "for"
    /\ UNCHANGED <<section_num2, para_num2, output2, rng2>>

NoHeading2 ==
    /\ pc2 = "if"
    /\ ~HeadingDue(i2)
    /\ i2' = i2 + 1
    /\ pc2' = "for"
    /\ UNCHANGED <<section_num2, para_num2, content2, output2, rng2>>

Return2 ==
    /\ pc2 = "for"
    /\ ~in_range(i2)
    /\ output2' = ReturnValue(content2)
    /\ pc2' = "done"
    /\ UNCHANGED <<i2, section_num2, para_num2, content2, rng2>>

InitPair ==
    /\ pc = "for" /\ pc2 = "for"
    /\ rng \in 0 .. MaxSeed /\ rng2 \in rng .. MaxSeed
    /\ i = 0 /\ section_num = 0 /\ para_num = 0
    /\ i2 = 0 /\ section_num2 = 0 /\ para_num2 = 0
    /\ paragraph_text = << >>
    /\ content = << >> /\ output = << >>
    /\ content2 = << >> /\ output2 = << >>
    /\ sentences = << >> /\ words = << >>
    /\ j = 0 /\ k = 0 /\ nsentences = 0 /\ nwords = 0

\* each run takes its next step
StepBoth ==
    /\ AppendParagraph \/ AppendHeading \/ NoHeading \/ Return
    /\ AppendParagraph2 \/ AppendHeading2 \/ NoHeading2 \/ Return2
    /\ UNCHANGED textVars

NextPair == StepBoth

SpecPair == InitPair /\ [][NextPair]_vars

(* ------------------------------------------------------------ reading *)

RECURSIVE split(_, _)
\* str.split(sep) for a one-token separator: the pieces between the separators
split(s, sep) ==
    IF Len(s) = 0 THEN << << >> >>
    ELSE IF Len(s) = 1 THEN (IF s[1] = sep THEN << << >>, << >> >> ELSE << s >>)
    ELSE LET a == split(SubSeq(s, 1, Len(s) \div 2), sep)
             b == split(SubSeq(s, (Len(s) \div 2) + 1, Len(s)), sep)
         IN  SubSeq(a, 1, Len(a) - 1) \o << a[Len(a)] \o b[1] >> \o Tail(b)

\* str.count(tok) for a one-token tok
Occurrences(s, tok) == Cardinality({ n \in DOMAIN s : s[n] = tok })

\* the fragments of a returned string
FragmentsOf(out) == IF out = << >> THEN << >> ELSE split(out, "\n")

IsBody(f) == Len(f) > 0 /\ f[1] = BodyOpen
IsHeading(f) == Len(f) > 0 /\ f[1] = HeadingOpen

\* the positions of the fragments of a kind in a sequence of fragments
BodyPositions(c) == { p \in DOMAIN c : IsBody(c[p]) }
HeadingPositions(c) == { p \in DOMAIN c : IsHeading(c[p]) }

\* the number a fragment carries at token n
int(tok) == CHOOSE n \in 0 .. Count + 1 : ToString(n) = tok

(* ------------------------------------------------------------- claims *)

\* C1: after i iterations the string the loop would return holds exactly i
\* body fragments (none, the empty string, after 0 iterations); the returned
\* output of the run holds exactly 2000 body fragments, no two of them for
\* the same section and paragraph number.
C1_BodyFragmentsEqualCount ==
    /\ pc = "for" =>
          /\ Occurrences(ReturnValue(content), BodyOpen) = i
          /\ i = 0 => ReturnValue(content) = << >>
    /\ pc = "done" =>
          /\ Occurrences(output, BodyOpen) = Count
          /\ LET fs == FragmentsOf(output)
             IN  Cardinality({ << fs[p][2], fs[p][4] >> : p \in BodyPositions(fs) }) = Count

C1_Witness ==
    /\ pc = "for"
    /\ i = 100
    /\ Occurrences(ReturnValue(content), BodyOpen) = 100
    /\ Len(FragmentsOf(ReturnValue(content))) = 102

\* C2: after i iterations the string the loop would return holds ceil(i / 50)
\* heading fragments, that is floor((i-1)/50) + 1 for i > 0 and none for i = 0:
\* one (2 fragments in all) after 1 iteration, three (those of indices 0, 50
\* and 100) after 150, and 40 in the returned output of the run.
C2_HeadingFragmentsCeil ==
    /\ pc = "for" =>
          LET n == Occurrences(ReturnValue(content), HeadingOpen)
          IN  /\ n = (i + HeadingInterval - 1) \div HeadingInterval
              /\ i > 0 => n = ((i - 1) \div HeadingInterval) + 1
              /\ i = 0 => n = 0
              /\ i = 1 => n = 1 /\ Len(content) = 2
              /\ i = 150 => n = 3 /\ HeadingPositions(content) = {2, 53, 104}
    /\ pc = "done" => Occurrences(output, HeadingOpen) = 40

C2_Witness ==
    /\ pc = "for"
    /\ i = 150
    /\ Cardinality(HeadingPositions(content)) = 3
    /\ Cardinality(BodyPositions(content)) = 150

\* the index of the paragraph whose body fragment is at position p of c: the
\* number of body fragments before it
BodyIndex(c, p) == Cardinality(BodyPositions(SubSeq(c, 1, p - 1)))

\* C3, as claimed: in the emitted sequence a heading fragment directly
\* precedes the body fragment of every index that is a multiple of 50, and no
\* heading fragment directly precedes the body fragment of any other index.
C3_HeadingBeforeBody ==
    pc = "for" =>
        LET fs == FragmentsOf(ReturnValue(content))
        IN  \A p \in BodyPositions(fs) :
                (BodyIndex(fs, p) % HeadingInterval = 0)
                    <=> (p > 1 /\ IsHeading(fs[p - 1]))

\* C3, amended: in the output sequence a heading fragment directly follows
\* the body fragment of every index that is a multiple of 50, and no heading
\* fragment directly follows the body fragment of any other index.
C3_HeadingAfterBody ==
    /\ pc = "for" /\ i > 0 =>
          IF (i - 1) % HeadingInterval = 0
          THEN IsHeading(content[Len(content)]) /\ IsBody(content[Len(content) - 1])
          ELSE IsBody(content[Len(content)])
    /\ pc = "done" =>
          LET fs == FragmentsOf(output)
          IN  \A p \in BodyPositions(fs) :
                  (BodyIndex(fs, p) % HeadingInterval = 0)
                      <=> (p < Len(fs) /\ IsHeading(fs[p + 1]))

C3_Witness ==
    /\ pc = "for"
    /\ i = 52
    /\ LET fs == FragmentsOf(ReturnValue(content))
       IN  /\ IsBody(fs[51]) /\ fs[51][4] = "50"
           /\ IsBody(fs[52]) /\ fs[52][4] = "51"
           /\ IsHeading(fs[53])
           /\ IsBody(fs[54]) /\ fs[54][4] = "52"

\* C4: the body fragment of every index n of 0..1999 carries section number
\* n // 100 + 1 and paragraph number n % 100 + 1; the heading fragment of every
\* index n with n % 50 = 0 carries section number n // 100 + 1 and subsection
\* number n // 50 + 1; in emission order section numbers and subsection
\* numbers never decrease, and within each section the paragraph numbers are
\* 1, 2, ..., 100.
C4_Numbering ==
    /\ pc = "if" =>
          /\ content[Len(content)][2] = ToString((i \div 100) + 1)
          /\ content[Len(content)][4] = ToString((i % 100) + 1)
    /\ pc = "done" =>
          LET fs == FragmentsOf(output)
              bs == SelectSeq(fs, IsBody)
              hs == SelectSeq(fs, IsHeading)
          IN  /\ Len(bs) = Count
              /\ \A q \in DOMAIN bs :
                    /\ bs[q][2] = ToString(((q - 1) \div 100) + 1)
                    /\ bs[q][4] = ToString(((q - 1) % 100) + 1)
                    /\ int(bs[q][4]) =
                          IF q = 1 \/ bs[q - 1][2] # bs[q][2]
                          THEN 1 ELSE int(bs[q - 1][4]) + 1
                    /\ (q = Len(bs) \/ bs[q + 1][2] # bs[q][2]) => int(bs[q][4]) = 100
              /\ \A p \in HeadingPositions(fs) :
                    LET n == BodyIndex(fs, p) - 1
                    IN  /\ n % 50 = 0
                        /\ fs[p][2] = ToString((n \div 100) + 1)
                        /\ fs[p][4] = ToString((n \div 50) + 1)
              /\ \A p \in 1 .. Len(fs) - 1 : int(fs[p][2]) <= int(fs[p + 1][2])
              /\ \A q \in 1 .. Len(hs) - 1 : int(hs[q][4]) <= int(hs[q + 1][4])

C4_Witness ==
    /\ pc = "for"
    /\ i = 101
    /\ LET bs == SelectSeq(content, IsBody)
           hs == SelectSeq(content, IsHeading)
       IN  /\ bs[100][2] = "1" /\ bs[100][4] = "100"
           /\ bs[101][2] = "2" /\ bs[101][4] = "1"
           /\ hs[3][2] = "2" /\ hs[3][4] = "3"

\* C9: the heading fragment of an index is emitted directly after the body
\* fragment of that index and before the body fragment of the next index, the
\* same way for every multiple of 50: the first fragment of a non-empty
\* output is the body fragment of index 0, and no two heading fragments are
\* adjacent.
C9_HeadingFollowsItsBody ==
    /\ content # << >> =>
          /\ IsBody(content[1]) /\ content[1][2] = "1" /\ content[1][4] = "1"
    /\ \A p \in 1 .. Len(content) - 1 :
          ~(IsHeading(content[p]) /\ IsHeading(content[p + 1]))
    /\ pc = "done" =>
          LET fs == FragmentsOf(output)
          IN  /\ IsBody(fs[1]) /\ fs[1][2] = "1" /\ fs[1][4] = "1"
              /\ \A p \in HeadingPositions(fs) :
                    LET n == (int(fs[p][4]) - 1) * 50
                    IN  /\ p > 1 /\ IsBody(fs[p - 1])
                        /\ BodyIndex(fs, p - 1) = n
                        /\ p < Len(fs) =>
                              IsBody(fs[p + 1]) /\ BodyIndex(fs, p + 1) = n + 1

C9_Witness ==
    /\ pc = "for"
    /\ i = 51
    /\ LET fs == FragmentsOf(ReturnValue(content))
       IN  /\ IsBody(fs[1]) /\ IsHeading(fs[2]) /\ IsBody(fs[3])
           /\ fs[2][4] = "1"
           /\ Len(fs) = 53
           /\ IsBody(fs[52]) /\ fs[52][4] = "51"
           /\ IsHeading(fs[53]) /\ fs[53][4] = "2"

\* C10: a step of the loop leaves the fragments already in content as they
\* are and in place; the step of lines 11-35 appends exactly one body
\* fragment, the step of lines 38-46 exactly one heading fragment when the
\* index is a multiple of 50 and nothing otherwise; the returned output is
\* the fragments of content, in their order, with one newline between two.
C10_AppendOnly ==
    [][ /\ Len(content') >= Len(content)
        /\ SubSeq(content', 1, Len(content)) = content
        /\ pc = "for" /\ pc' = "if" =>
              /\ Len(content') = Len(content) + 1
              /\ IsBody(content'[Len(content')])
        /\ pc = "if" =>
              IF i % 50 = 0
              THEN /\ Len(content') = Len(content) + 1
                   /\ IsHeading(content'[Len(content')])
              ELSE content' = content
        /\ pc' = "done" =>
              /\ content' = content
              /\ FragmentsOf(output') = content
              /\ Occurrences(output', "\n") = Len(content) - 1
      ]_vars

C10_Witness ==
    /\ pc = "for"
    /\ i = 51
    /\ Len(content) = 53
    /\ IsBody(content[1]) /\ IsHeading(content[2]) /\ IsHeading(content[53])
    /\ ReturnValue(content)[8] = "\n"
    /\ FragmentsOf(ReturnValue(content)) = content

\* what of a fragment does not depend on the text: its kind, its numbers and
\* the literal pieces of its template
Structure(f) == IF IsBody(f) THEN [f EXCEPT ![6] = ""] ELSE f
StructureOf(c) == [ p \in DOMAIN c |-> Structure(c[p]) ]

\* C5: two runs, whatever their random sources return, are at every step at
\* the same place of the loop with the same number of fragments, of the same
\* kinds and with the same section, paragraph and subsection numbers at every
\* position, and so are the fragments of their returned outputs: the runs
\* differ in the paragraph texts only.
C5_StructureIndependentOfRandom ==
    /\ pc = pc2 /\ i = i2
    /\ Len(content) = Len(content2)
    /\ StructureOf(content) = StructureOf(content2)
    /\ pc = "done" =>
          /\ Len(FragmentsOf(output)) = Len(FragmentsOf(output2))
          /\ StructureOf(FragmentsOf(output)) = StructureOf(FragmentsOf(output2))

C5_Witness ==
    /\ pc = "for" /\ pc2 = "for"
    /\ i = 51 /\ i2 = 51
    /\ Len(content) = 53
    /\ \A p \in BodyPositions(content) : content[p][6] # content2[p][6]
    /\ ReturnValue(content) # ReturnValue(content2)

Lowercase == Range(ascii_lowercase)
Uppercase == Range(ascii_uppercase)

\* the words of a sentence: what its spaces separate, the final period apart
WordsOf(s) == split(SubSeq(s, 1, Len(s) - 1), " ")

IsWord(w) == Len(w) >= 3 /\ Len(w) <= 12 /\ \A n \in DOMAIN w : w[n] \in Lowercase

\* C6: every word generated is made of lowercase ASCII letters only and is 3
\* to 12 characters long; every sentence has 8 to 20 words; every paragraph
\* has 3 to 8 sentences.
C6_WordSentenceParagraphBounds ==
    /\ \A n \in DOMAIN words : IsWord(words[n])
    /\ pc = "word" => k = Len(words) /\ k <= 20
    /\ \A n \in DOMAIN sentences :
          LET ws == WordsOf(sentences[n])
          IN  /\ Len(ws) >= 8 /\ Len(ws) <= 20
              /\ \A m \in DOMAIN ws :
                    IsWord([ x \in DOMAIN ws[m] |-> lower(ws[m][x]) ])
              /\ \A m \in 2 .. Len(ws) : IsWord(ws[m])
    /\ pc = "sentence" /\ j > 0 => Len(words) >= 8 /\ Len(words) <= 20
    /\ pc = "joined" =>
          /\ Len(sentences) >= 3 /\ Len(sentences) <= 8
          /\ Occurrences(paragraph_text, ".") = Len(sentences)

C6_Witness ==
    /\ pc = "joined"
    /\ Len(sentences) = 8
    /\ \E n \in DOMAIN words : Len(words[n]) = 3
    /\ \E n \in DOMAIN words : Len(words[n]) = 12

\* C7: every sentence ends with a period, which is its only one, and starts
\* with an upper-case letter; its words are separated by single spaces (the
\* sentence just appended is the words just generated, the first one
\* capitalised, with one space between two and the period after the last).
C7_SentenceShape ==
    /\ \A n \in DOMAIN sentences :
          LET s == sentences[n]
          IN  /\ Len(s) >= 2
              /\ s[Len(s)] = "."
              /\ Occurrences(s, ".") = 1
              /\ s[1] \in Uppercase
              /\ \A m \in DOMAIN WordsOf(s) : Len(WordsOf(s)[m]) > 0
    /\ pc = "sentence" /\ j > 0 =>
          LET ws == WordsOf(sentences[Len(sentences)])
          IN  /\ Len(ws) = Len(words)
              /\ \A m \in DOMAIN ws :
                    ws[m] = IF m = 1 THEN << upper(words[1][1]) >> \o Tail(words[1])
                            ELSE words[m]

C7_Witness ==
    /\ pc = "sentence"
    /\ j = 3
    /\ Len(sentences) = 3
    /\ sentences[3][1] \in Uppercase
    /\ Occurrences(sentences[3], " ") = Len(words) - 1

====
